---- MODULE Spec2Model ----
(***************************************************************************)
(* A model of the tournament overlay scripts: bracket_handler.py (the      *)
(* Challonge client and its PARTICIPANTS / MATCHES mappings),              *)
(* match_scene_handler.py (the roster and the scene sources) and the       *)
(* callbacks of main.py that drive them.                                   *)
(*                                                                         *)
(* Python values are represented as follows.  A dict is a function whose   *)
(* DOMAIN is its key set; a key the dict lacks is a key outside DOMAIN.    *)
(* A list or tuple is a sequence.  None, where it stands for a string, is  *)
(* the reserved string None below, which no name of the model equals.  An  *)
(* exception that leaves an operation is recorded in the variable raised.  *)
(***************************************************************************)
EXTENDS Integers, Sequences, FiniteSets, TLC

VARIABLES
    API_KEY,        \* bracket_handler.API_KEY
    TOURNAMENT_ID,  \* bracket_handler.TOURNAMENT_ID
    PARTICIPANTS,   \* bracket_handler.PARTICIPANTS: participant id -> name
    MATCHES,        \* bracket_handler.MATCHES: play order -> <<side 1, side 2>>
    TEAM_ROSTER,    \* match_scene_handler.TEAM_ROSTER: team name -> Team
    sources,        \* the host's sources, in enumeration order
    selected_team1, \* main.selected_team1
    selected_team2, \* main.selected_team2
    pc,             \* position of the running call ("idle" between calls)
    op,             \* the operation the last step belongs to
    args,           \* the arguments that operation was called with
    resp,           \* what the remote (or the roster file) answered to the last step
    loaded,         \* which "Loaded ..." lines the last operation printed
    raised,         \* the exception the last step let escape ("none" if it returned)
    result,         \* the value the last operation returned to its caller
    calls           \* the operations the last callback of main.py has called, in order

vars == <<API_KEY, TOURNAMENT_ID, PARTICIPANTS, MATCHES, TEAM_ROSTER, sources,
          selected_team1, selected_team2, pc, op, args, resp, loaded, raised, result,
          calls>>

bracketVars == <<API_KEY, TOURNAMENT_ID, PARTICIPANTS, MATCHES>>
sceneVars == <<TEAM_ROSTER, sources, selected_team1, selected_team2>>

----------------------------------------------------------------------------
(* Bounds and input domains *)

\* longest list of records a remote payload carries
MaxRecords == 2

None == "<None>"
Empty == [k \in {} |-> k]

Put(f, k, v) == [x \in (DOMAIN f) \cup {k} |-> IF x = k THEN v ELSE f[x]]
Get(f, k, default) == IF k \in DOMAIN f THEN f[k] ELSE default

SeqsUpTo(S, n) == UNION {[1..k -> S] : k \in 0..n}

Names == {"Alpha", "Beta"}
Keys == {"", "key"}
TournamentIds == {"", "tid"}

----------------------------------------------------------------------------
(* JSON values, as json.loads returns them *)

JNull == [json |-> "null"]
JNumber == [json |-> "number"]
JObject(m) == [json |-> "object", members |-> m]

\* Python truth value of a decoded payload (the number is a non-zero one)
Truthy(v) ==
    CASE v.json = "null" -> FALSE
      [] v.json = "number" -> TRUE
      [] v.json = "object" -> DOMAIN v.members # {}

\* well-formed records of the participants endpoint: id "1" under either name, id "2"
ParticipantRecords ==
    {[id |-> "1", attributes |-> [name |-> n]] : n \in Names}
    \cup {[id |-> "2", attributes |-> [name |-> "Beta"]]}

\* malformed ones: lacking 'id', lacking 'attributes', lacking 'name'
BadParticipantRecords ==
    {[attributes |-> [name |-> "Alpha"]],
     [id |-> "1"],
     [id |-> "1", attributes |-> Empty]}

\* entries of points_by_participant; Empty lacks 'participant_id'
P1 == [participant_id |-> 1]
P2 == [participant_id |-> 2]

Match(o, pts) == [attributes |-> [suggested_play_order |-> o, points_by_participant |-> pts]]

\* well-formed records of the matches endpoint: without 'suggested_play_order',
\* without 'points_by_participant', and with one and two entries
MatchRecords ==
    {[attributes |-> [points_by_participant |-> <<P1>>]],
     [attributes |-> [suggested_play_order |-> 1]],
     Match(0, <<P1>>), Match(1, <<P2, P1>>)}

\* malformed ones: lacking 'attributes', and an entry lacking 'participant_id'
BadMatchRecords == {Empty, Match(0, <<P1, Empty>>)}

\* the lists a payload carries: up to MaxRecords records, at most one of them
\* malformed, at any position
RecordLists(good, bad) ==
    SeqsUpTo(good, MaxRecords)
    \cup UNION {{[j \in 1..k |-> IF j = i THEN b ELSE g[j]] :
                    g \in [1..k -> good], i \in 1..k, b \in bad} : k \in 1..MaxRecords}

\* outcomes of urlopen + read + decode + json.loads
ErrorKinds == {"HTTPError", "URLError", "timeout", "JSONDecodeError"}
Bodies(lists) ==
    {JNull, JNumber, JObject(Empty), JObject([errors |-> "x"])}
    \cup {JObject([data |-> d]) : d \in lists}
Responses(lists) ==
    {[kind |-> k] : k \in ErrorKinds}
    \cup {[kind |-> "json", body |-> b] : b \in Bodies(lists)}
ParticipantResponses == Responses(RecordLists(ParticipantRecords, BadParticipantRecords))
MatchResponses == Responses(RecordLists(MatchRecords, BadMatchRecords))
NoRequest == [kind |-> "none"]

----------------------------------------------------------------------------
(* bracket_handler.py *)

\* int() of a string of decimal digits
DigitValue(c) ==
    CASE c = "0" -> 0 [] c = "1" -> 1 [] c = "2" -> 2 [] c = "3" -> 3
      [] c = "4" -> 4 [] c = "5" -> 5 [] c = "6" -> 6 [] c = "7" -> 7
      [] c = "8" -> 8 [] c = "9" -> 9

RECURSIVE PyInt(_)
PyInt(s) ==
    IF Len(s) = 0 THEN 0
    ELSE 10 * PyInt(SubSeq(s, 1, Len(s) - 1)) + DigitValue(SubSeq(s, Len(s), Len(s)))

\* str() of an int, as an f-string formats it
DigitChar(d) ==
    CASE d = 0 -> "0" [] d = 1 -> "1" [] d = 2 -> "2" [] d = 3 -> "3"
      [] d = 4 -> "4" [] d = 5 -> "5" [] d = 6 -> "6" [] d = 7 -> "7"
      [] d = 8 -> "8" [] d = 9 -> "9"

RECURSIVE PyStr(_)
PyStr(n) ==
    IF n < 0 THEN "-" \o PyStr(-n)
    ELSE IF n < 10 THEN DigitChar(n)
    ELSE PyStr(n \div 10) \o DigitChar(n % 10)

\* _api_request: None (JNull) without a key or on any caught error, else the body
api_request(key, r) ==
    IF key = "" THEN JNull
    ELSE IF r.kind = "json" THEN r.body
    ELSE JNull

\* the dict comprehension of get_participants over result["data"]
RECURSIVE ParticipantsFrom(_, _)
ParticipantsFrom(data, acc) ==
    IF data = <<>> THEN [raised |-> "none", map |-> acc]
    ELSE LET p == Head(data) IN
         IF "id" \notin DOMAIN p THEN [raised |-> "KeyError", map |-> acc]
         ELSE IF "attributes" \notin DOMAIN p THEN [raised |-> "KeyError", map |-> acc]
         ELSE IF "name" \notin DOMAIN p.attributes THEN [raised |-> "KeyError", map |-> acc]
         ELSE ParticipantsFrom(Tail(data), Put(acc, PyInt(p.id), p.attributes.name))

\* PARTICIPANTS = {...}: the built dict replaces the old one
assign_participants_merging(old, built) ==
    [k \in (DOMAIN old) \cup (DOMAIN built) |->
        IF k \in DOMAIN built THEN built[k] ELSE old[k]]

assign_participants(old, built) == built

\* get_participants, the remote answering r: the new PARTICIPANTS, what escaped,
\* and whether "Loaded ... participants" was printed
participants_after(parts, tid, key, r) ==
    IF tid = "" THEN [map |-> parts, raised |-> "none", loaded |-> FALSE]
    ELSE LET res == api_request(key, r) IN
         IF ~Truthy(res) THEN [map |-> parts, raised |-> "none", loaded |-> FALSE]
         ELSE IF res.json # "object"
              THEN [map |-> parts, raised |-> "TypeError", loaded |-> FALSE]
         ELSE IF "data" \notin DOMAIN res.members
              THEN [map |-> parts, raised |-> "none", loaded |-> FALSE]
         ELSE LET built == ParticipantsFrom(res.members.data, Empty) IN
              IF built.raised # "none"
              THEN [map |-> parts, raised |-> built.raised, loaded |-> FALSE]
              ELSE [map |-> assign_participants(parts, built.map),
                    raised |-> "none", loaded |-> TRUE]

\* points[i]["participant_id"] if len(points) > i else None, then PARTICIPANTS.get
Side(points, i, parts) ==
    IF Len(points) < i THEN [raised |-> "none", name |-> None]
    ELSE IF "participant_id" \notin DOMAIN points[i]
         THEN [raised |-> "KeyError", name |-> None]
    ELSE [raised |-> "none", name |-> Get(parts, points[i].participant_id, None)]

\* attrs.get("suggested_play_order"): NoPlayOrder stands for None
NoPlayOrder == -1
play_order_of(attrs) == Get(attrs, "suggested_play_order", NoPlayOrder)

\* if play_order is not None
stores_unconditionally(play_order) == TRUE

stores(play_order) == play_order # NoPlayOrder

\* the loop of get_matches over result["data"], MATCHES being acc so far; int()
\* leaves the play order, an int of the payload, as it is
RECURSIVE MatchesFrom(_, _, _)
MatchesFrom(data, parts, acc) ==
    IF data = <<>> THEN [raised |-> "none", map |-> acc]
    ELSE LET m == Head(data) IN
         IF "attributes" \notin DOMAIN m THEN [raised |-> "KeyError", map |-> acc]
         ELSE LET attrs == m.attributes IN
              IF ~stores(play_order_of(attrs))
              THEN MatchesFrom(Tail(data), parts, acc)
              ELSE LET points == Get(attrs, "points_by_participant", <<>>)
                       s1 == Side(points, 1, parts)
                       s2 == Side(points, 2, parts)
                   IN IF s1.raised # "none" THEN [raised |-> s1.raised, map |-> acc]
                      ELSE IF s2.raised # "none" THEN [raised |-> s2.raised, map |-> acc]
                      ELSE MatchesFrom(Tail(data), parts,
                                       Put(acc, play_order_of(attrs),
                                           <<s1.name, s2.name>>))

\* get_matches as it would be with MATCHES = {} ahead of the test of result
matches_after_clearing(matches, parts, tid, key, r) ==
    IF tid = "" THEN [map |-> matches, raised |-> "none", loaded |-> FALSE]
    ELSE LET res == api_request(key, r) IN
         IF ~Truthy(res) THEN [map |-> Empty, raised |-> "none", loaded |-> FALSE]
         ELSE IF res.json # "object"
              THEN [map |-> Empty, raised |-> "TypeError", loaded |-> FALSE]
         ELSE IF "data" \notin DOMAIN res.members
              THEN [map |-> Empty, raised |-> "none", loaded |-> FALSE]
         ELSE LET built == MatchesFrom(res.members.data, parts, Empty) IN
              [map |-> built.map, raised |-> built.raised,
               loaded |-> built.raised = "none"]

\* get_matches, the remote answering r
matches_after(matches, parts, tid, key, r) ==
    IF tid = "" THEN [map |-> matches, raised |-> "none", loaded |-> FALSE]
    ELSE LET res == api_request(key, r) IN
         IF ~Truthy(res) THEN [map |-> matches, raised |-> "none", loaded |-> FALSE]
         ELSE IF res.json # "object"
              THEN [map |-> matches, raised |-> "TypeError", loaded |-> FALSE]
         ELSE IF "data" \notin DOMAIN res.members
              THEN [map |-> matches, raised |-> "none", loaded |-> FALSE]
         ELSE LET built == MatchesFrom(res.members.data, parts, Empty) IN
              [map |-> built.map, raised |-> built.raised,
               loaded |-> built.raised = "none"]

\* f"G{game_num}_T1" and f"G{game_num}_T2"
source_key_one_side(game_num, side) == "G" \o PyStr(game_num) \o "_T1"

source_key(game_num, side) == "G" \o PyStr(game_num) \o "_T" \o side

\* get_bracket_text_sources: the loop over MATCHES.items(), sources being acc so far
RECURSIVE TextSourcesFrom(_, _, _)
TextSourcesFrom(games, matches, acc) ==
    IF games = {} THEN acc
    ELSE LET game_num == CHOOSE n \in games : TRUE
             withT1 == Put(acc, source_key(game_num, "1"), matches[game_num][1])
             withT2 == Put(withT1, source_key(game_num, "2"), matches[game_num][2])
         IN TextSourcesFrom(games \ {game_num}, matches, withT2)

get_bracket_text_sources(matches) == TextSourcesFrom(DOMAIN matches, matches, Empty)

ReturnedNone == [returned |-> "None"]
Returned(v) == [returned |-> "value", value |-> v]

\* the state every module starts in
Construction ==
    /\ API_KEY = ""
    /\ TOURNAMENT_ID = ""
    /\ PARTICIPANTS = Empty
    /\ MATCHES = Empty
    /\ TEAM_ROSTER = Empty
    /\ selected_team1 = ""
    /\ selected_team2 = ""
    /\ pc = "idle"
    /\ op = "init"
    /\ args = <<>>
    /\ resp = NoRequest
    /\ loaded = {}
    /\ raised = "none"
    /\ result = ReturnedNone
    /\ calls = <<>>

\* a request goes out only with both credentials set
Requests_without_key_guard == TOURNAMENT_ID # ""

Requests == TOURNAMENT_ID # "" /\ API_KEY # ""
Answers(S) == IF Requests THEN S ELSE {NoRequest}

set_credentials ==
    /\ pc = "idle"
    /\ \E k \in Keys, t \in TournamentIds :
          /\ API_KEY' = k
          /\ TOURNAMENT_ID' = t
    /\ op' = "set_credentials"
    /\ args' = <<API_KEY', TOURNAMENT_ID'>>
    /\ resp' = NoRequest
    /\ loaded' = {}
    /\ raised' = "none"
    /\ result' = ReturnedNone
    /\ UNCHANGED <<calls, PARTICIPANTS, MATCHES, pc, sceneVars>>

\* the body of get_participants, the remote answering r
FetchParticipants(r) ==
    \E out \in {participants_after(PARTICIPANTS, TOURNAMENT_ID, API_KEY, r)} :
    /\ PARTICIPANTS' = out.map
    /\ raised' = out.raised
    /\ loaded' = IF out.loaded THEN {"participants"} ELSE {}
    /\ resp' = r
    /\ args' = <<>>
    /\ result' = ReturnedNone
    /\ UNCHANGED <<calls, API_KEY, TOURNAMENT_ID, MATCHES, sceneVars>>

\* the body of get_matches, the remote answering r
FetchMatches(r, before) ==
    \E out \in {matches_after(MATCHES, PARTICIPANTS, TOURNAMENT_ID, API_KEY, r)} :
    /\ MATCHES' = out.map
    /\ raised' = out.raised
    /\ loaded' = before \cup (IF out.loaded THEN {"matches"} ELSE {})
    /\ resp' = r
    /\ args' = <<>>
    /\ result' = ReturnedNone
    /\ UNCHANGED <<calls, API_KEY, TOURNAMENT_ID, PARTICIPANTS, sceneVars>>

get_participants ==
    /\ pc = "idle"
    /\ \E r \in Answers(ParticipantResponses) : FetchParticipants(r)
    /\ op' = "get_participants"
    /\ pc' = "idle"

get_matches ==
    /\ pc = "idle"
    /\ \E r \in Answers(MatchResponses) : FetchMatches(r, {})
    /\ op' = "get_matches"
    /\ pc' = "idle"

\* refresh_bracket up to the return of get_participants; an exception ends the call
refresh_bracket_participants ==
    /\ pc = "idle"
    /\ \E r \in Answers(ParticipantResponses) : FetchParticipants(r)
    /\ op' = "refresh_bracket"
    /\ pc' = IF raised' = "none" THEN "refresh_matches" ELSE "idle"

\* refresh_bracket from the call of get_matches to its return
refresh_bracket_matches ==
    /\ pc = "refresh_matches"
    /\ \E r \in Answers(MatchResponses) : FetchMatches(r, loaded)
    /\ op' = "refresh_bracket"
    /\ pc' = "idle"

call_get_bracket_text_sources ==
    /\ pc = "idle"
    /\ result' = Returned(get_bracket_text_sources(MATCHES))
    /\ op' = "get_bracket_text_sources"
    /\ args' = <<>>
    /\ resp' = NoRequest
    /\ loaded' = {}
    /\ raised' = "none"
    /\ UNCHANGED <<calls, bracketVars, sceneVars, pc>>

InitBracket == Construction /\ sources = <<>>

\* the fetch operations called one by one
NextFetch ==
    \/ set_credentials
    \/ get_participants
    \/ get_matches

SpecFetch == InitBracket /\ [][NextFetch]_vars

\* the fetch operations called through refresh_bracket
NextRefresh ==
    \/ set_credentials
    \/ refresh_bracket_participants
    \/ refresh_bracket_matches
    \/ call_get_bracket_text_sources

SpecRefresh == InitBracket /\ [][NextRefresh]_vars

\* the fetch operations called one by one and through refresh_bracket
NextCredentials ==
    \/ set_credentials
    \/ get_participants
    \/ get_matches
    \/ refresh_bracket_participants
    \/ refresh_bracket_matches

SpecCredentials == InitBracket /\ [][NextCredentials]_vars

----------------------------------------------------------------------------------------------------------------------------------------
(* match_scene_handler.py: the roster *)

\* most teams a roster file lists
MaxTeams == 2

TeamNames == {"A", "B", "C"}

\* a JSON object whose key order matters is the sequence of its <<key, value>>
\* members; JString is a value that is no object
JString == [json |-> "string"]
Field(obj, k) ==
    LET at == {i \in 1..Len(obj) : obj[i][1] = k}
    IN IF at = {} THEN None ELSE obj[CHOOSE i \in at : TRUE][2]
Values(obj) == [i \in 1..Len(obj) |-> obj[i][2]]

\* position records of a roster file: 'name' and a channel field, in either order
Player(n, c) == <<<<"name", n>>, <<"channel", c>>>>
PositionRecords ==
    {Player("X", "x1"), Player("Y", ""), Player("", "z1"),
     <<<<"channel", "w1">>, <<"name", "W">>>>}

\* team records of a roster file, positions a team does not field being absent
TeamRecords ==
    {[helm |-> Player("X", "x1"), mc |-> Player("Y", "")],
     [helm |-> Player("", "z1"), mc |-> <<<<"channel", "w1">>, <<"name", "W">>>>,
      bilge |-> Player("X", "x1")]}

\* team records of the wrong shape: no object, and a position that is no object
BadTeamRecords == {JString, [helm |-> JString]}

\* data["teams"] in file order: up to MaxTeams teams of distinct names
TeamLists(records) ==
    UNION {{t \in [1..k -> TeamNames \X records] :
               \A i, j \in 1..k : i # j => t[i][1] # t[j][1]} : k \in 0..MaxTeams}

\* what open() and json.load() make of roster.json
RosterFiles ==
    {[kind |-> "FileNotFoundError"], [kind |-> "JSONDecodeError"],
     [kind |-> "json", data |-> Empty],
     [kind |-> "json", data |-> [version |-> "1"]]}
    \cup {[kind |-> "json", data |-> [teams |-> t]] :
             t \in TeamLists(TeamRecords \cup BadTeamRecords)}

ValidRosterFiles ==
    {[kind |-> "json", data |-> [teams |-> t]] : t \in TeamLists(TeamRecords)}

\* a Team attribute that is None
NoTuple == <<>>

\* tuple(team_data[pos].values()) if team_data.get(pos) and
\* team_data[pos].get("name") else None
position_of(team_data, pos) ==
    IF pos \notin DOMAIN team_data THEN [raised |-> "none", tup |-> NoTuple]
    ELSE IF team_data[pos] = JString THEN [raised |-> "AttributeError", tup |-> NoTuple]
    ELSE IF team_data[pos] = <<>> THEN [raised |-> "none", tup |-> NoTuple]
    ELSE IF Field(team_data[pos], "name") \in {None, ""}
         THEN [raised |-> "none", tup |-> NoTuple]
    ELSE [raised |-> "none", tup |-> Values(team_data[pos])]

\* Team(team_name=..., helm_tup=..., mc_tup=..., flex_tup=..., bilge_tup=...)
TeamOf(team_name, team_data) ==
    IF team_data = JString THEN [raised |-> "AttributeError"]
    ELSE LET helm == position_of(team_data, "helm")
             mc == position_of(team_data, "mc")
             flex == position_of(team_data, "flex")
             bilge == position_of(team_data, "bilge")
             failed == {t.raised : t \in {helm, mc, flex, bilge}} \ {"none"}
         IN IF failed # {} THEN [raised |-> CHOOSE e \in failed : TRUE]
            ELSE [raised |-> "none",
                  team |-> [name |-> team_name, helm |-> helm.tup, flex |-> flex.tup,
                            mc |-> mc.tup, bilge |-> bilge.tup]]

\* the loop of load_roster over data["teams"].items(), TEAM_ROSTER being acc so far
RECURSIVE RosterFrom(_, _)
RosterFrom(teams, acc) ==
    IF teams = <<>> THEN [raised |-> "none", roster |-> acc]
    ELSE LET built == TeamOf(Head(teams)[1], Head(teams)[2]) IN
         IF built.raised # "none" THEN [raised |-> built.raised, roster |-> acc]
         ELSE RosterFrom(Tail(teams), Put(acc, Head(teams)[1], built.team))

\* load_roster, roster.json being file
roster_after(roster, file) ==
    IF file.kind \in {"FileNotFoundError", "JSONDecodeError"}
    THEN [raised |-> "none", roster |-> roster]
    ELSE IF "teams" \notin DOMAIN file.data
         THEN [raised |-> "KeyError", roster |-> Empty]
    ELSE RosterFrom(file.data.teams, Empty)

load_roster ==
    /\ pc = "idle"
    /\ \E file \in RosterFiles :
          /\ TEAM_ROSTER' = roster_after(TEAM_ROSTER, file).roster
          /\ raised' = roster_after(TEAM_ROSTER, file).raised
          /\ resp' = file
    /\ op' = "load_roster"
    /\ args' = <<>>
    /\ loaded' = {}
    /\ result' = ReturnedNone
    /\ UNCHANGED <<calls, bracketVars, sources, selected_team1, selected_team2, pc>>

\* get_team_names: sorted(TEAM_ROSTER.keys()), names of one capital letter each
Before(a, b) == \E i, j \in 1..3 : i < j /\ <<"A", "B", "C">>[i] = a /\ <<"A", "B", "C">>[j] = b
RECURSIVE Sorted(_)
Sorted(S) ==
    IF S = {} THEN <<>>
    ELSE LET least == CHOOSE x \in S : \A y \in S \ {x} : Before(x, y)
         IN <<least>> \o Sorted(S \ {least})

get_team_names(roster) == Sorted(DOMAIN roster)

call_get_team_names ==
    /\ pc = "idle"
    /\ result' = Returned(get_team_names(TEAM_ROSTER))
    /\ op' = "get_team_names"
    /\ args' = <<>>
    /\ resp' = NoRequest
    /\ loaded' = {}
    /\ raised' = "none"
    /\ UNCHANGED <<calls, bracketVars, sceneVars, pc>>

InitRoster == Construction /\ sources = <<>>

NextRoster ==
    \/ load_roster
    \/ call_get_team_names

SpecRoster == InitRoster /\ [][NextRoster]_vars

----------------------------------------------------------------------------
(* match_scene_handler.py: the scene sources *)

\* most sources the host holds
MaxSources == 2

T1_NAME_SOURCE == "Team 1"
T2_NAME_SOURCE == "Team 2"
T1_HELM_PREFIX == "T1H -"
T1_MC_PREFIX == "T1MC -"
T1_FLEX_PREFIX == "T1F -"
T1_BILGE_PREFIX == "T1B -"
T2_HELM_PREFIX == "T2H -"
T2_MC_PREFIX == "T2MC -"
T2_FLEX_PREFIX == "T2F -"
T2_BILGE_PREFIX == "T2B -"

\* names the host's sources carry when the script first sees them
SourceNames ==
    {T1_NAME_SOURCE, T2_NAME_SOURCE, "T1H - Old", "T1MC - Old", "T2H - Old"}

\* a source: its name and the "text" and "url" of its settings
HostSources ==
    {[i \in 1..Len(names) |-> [name |-> names[i], text |-> "", url |-> ""]] :
        names \in SeqsUpTo(SourceNames, MaxSources)}

build_twitch_url(channel) ==
    IF channel = "" THEN ""
    ELSE "https://player.twitch.tv/?channel=" \o channel
         \o "&enableExtensions=true&muted=false&parent=twitch.tv"
         \o "&player=popout&quality=480p30&volume=0.69"

get_twitch_link(position_tup) ==
    IF position_tup = NoTuple THEN None ELSE position_tup[2]

get_player_name(position_tup) ==
    IF position_tup = NoTuple THEN None ELSE position_tup[1]

\* str.startswith
StartsWith(name, prefix) ==
    Len(name) >= Len(prefix) /\ SubSeq(name, 1, Len(prefix)) = prefix

Min(S) == CHOOSE x \in S : \A y \in S : x <= y

\* the places, in enumeration order, of the sources find_source_by_prefix accepts
Matching(srcs, prefix) ==
    {i \in 1..Len(srcs) : srcs[i].name # "" /\ StartsWith(srcs[i].name, prefix)}

\* find_source_by_prefix without its break: the last match wins
find_source_by_prefix_last(srcs, prefix) ==
    IF Matching(srcs, prefix) = {} THEN None
    ELSE srcs[CHOOSE i \in Matching(srcs, prefix) :
                 \A j \in Matching(srcs, prefix) : j <= i].name

find_source_by_prefix(srcs, prefix) ==
    IF Matching(srcs, prefix) = {} THEN None
    ELSE srcs[Min(Matching(srcs, prefix))].name

\* obs.obs_get_source_by_name: the place of the first source of that name, 0 if none
obs_get_source_by_name(srcs, name) ==
    LET at == {i \in 1..Len(srcs) : srcs[i].name = name}
    IN IF at = {} THEN 0 ELSE Min(at)

\* the new name as it would be without the prefix
new_name_without_prefix(prefix, player_name) ==
    IF player_name \notin {None, ""} THEN player_name ELSE prefix

\* f"{prefix} {player_name}" if player_name else prefix
new_name(prefix, player_name) ==
    IF player_name \notin {None, ""} THEN prefix \o " " \o player_name ELSE prefix

set_browser_source_url(srcs, prefix, player_name, twitch_username) ==
    IF prefix = "" THEN srcs
    ELSE LET source_name == find_source_by_prefix(srcs, prefix) IN
         IF source_name \in {None, ""} THEN srcs
         ELSE LET source == obs_get_source_by_name(srcs, source_name) IN
              IF source = 0 THEN srcs
              ELSE LET url == IF twitch_username \in {None, ""} THEN ""
                              ELSE build_twitch_url(twitch_username)
                   IN [srcs EXCEPT ![source].name = new_name(prefix, player_name),
                                   ![source].url = url]

set_text_source(srcs, source_name, text) ==
    IF source_name = "" THEN srcs
    ELSE LET source == obs_get_source_by_name(srcs, source_name) IN
         IF source = 0 THEN srcs
         ELSE [srcs EXCEPT ![source].text = text]

apply_team_to_sources(srcs, team, name_source, helm_prefix, mc_prefix, flex_prefix, bilge_prefix) ==
    LET named == set_text_source(srcs, name_source, team.name)
        helm == set_browser_source_url(named, helm_prefix, get_player_name(team.helm),
                                       get_twitch_link(team.helm))
        mc == set_browser_source_url(helm, mc_prefix, get_player_name(team.mc),
                                     get_twitch_link(team.mc))
        flex == set_browser_source_url(mc, flex_prefix, get_player_name(team.flex),
                                       get_twitch_link(team.flex))
    IN set_browser_source_url(flex, bilge_prefix, get_player_name(team.bilge),
                              get_twitch_link(team.bilge))

get_team(roster, team_name) == Get(roster, team_name, NoTuple)

\* execute_transition as it would be if it gave up unless both teams are known
sources_after_all_or_nothing(srcs, roster, team1_name, team2_name) ==
    IF get_team(roster, team1_name) = NoTuple \/ get_team(roster, team2_name) = NoTuple
    THEN srcs
    ELSE apply_team_to_sources(
             apply_team_to_sources(srcs, get_team(roster, team1_name), T1_NAME_SOURCE,
                                   T1_HELM_PREFIX, T1_MC_PREFIX, T1_FLEX_PREFIX,
                                   T1_BILGE_PREFIX),
             get_team(roster, team2_name), T2_NAME_SOURCE, T2_HELM_PREFIX,
             T2_MC_PREFIX, T2_FLEX_PREFIX, T2_BILGE_PREFIX)

\* execute_transition: the sources it leaves
sources_after(srcs, roster, team1_name, team2_name) ==
    LET team1 == get_team(roster, team1_name)
        after1 == IF team1 # NoTuple
                  THEN apply_team_to_sources(srcs, team1, T1_NAME_SOURCE,
                                             T1_HELM_PREFIX, T1_MC_PREFIX,
                                             T1_FLEX_PREFIX, T1_BILGE_PREFIX)
                  ELSE srcs
        team2 == get_team(roster, team2_name)
    IN IF team2 # NoTuple
       THEN apply_team_to_sources(after1, team2, T2_NAME_SOURCE, T2_HELM_PREFIX,
                                  T2_MC_PREFIX, T2_FLEX_PREFIX, T2_BILGE_PREFIX)
       ELSE after1

\* team names a caller passes: those of the roster files (which a given roster may
\* lack) and the empty selection
Selections == TeamNames \cup {""}

execute_transition ==
    /\ pc = "idle"
    /\ \E team1_name, team2_name \in Selections :
          /\ sources' = sources_after(sources, TEAM_ROSTER, team1_name, team2_name)
          /\ args' = <<team1_name, team2_name>>
    /\ op' = "execute_transition"
    /\ resp' = NoRequest
    /\ loaded' = {}
    /\ raised' = "none"
    /\ result' = ReturnedNone
    /\ UNCHANGED <<calls, bracketVars, TEAM_ROSTER, selected_team1, selected_team2, pc>>

\* the rosters load_roster builds from the well-formed files
LoadedRosters == {roster_after(Empty, file).roster : file \in ValidRosterFiles}

\* the script loaded over the host's sources, roster.json being a well-formed file
InitScene ==
    /\ API_KEY = ""
    /\ TOURNAMENT_ID = ""
    /\ PARTICIPANTS = Empty
    /\ MATCHES = Empty
    /\ TEAM_ROSTER \in LoadedRosters
    /\ sources \in HostSources
    /\ selected_team1 = ""
    /\ selected_team2 = ""
    /\ pc = "idle"
    /\ op = "load_roster"
    /\ args = <<>>
    /\ resp = NoRequest
    /\ loaded = {}
    /\ raised = "none"
    /\ result = ReturnedNone
    /\ calls = <<>>

NextScene == execute_transition

SpecScene == InitScene /\ [][NextScene]_vars

----------------------------------------------------------------------------
(* main.py: the callbacks the host calls *)

\* main.set_text_source: the text of the first source of that name, if there is one
main_set_text_source(srcs, source_name, text) ==
    LET source == obs_get_source_by_name(srcs, source_name) IN
    IF source = 0 THEN srcs ELSE [srcs EXCEPT ![source].text = text]

\* the loop of update_bracket_sources over source_map.items(), srcs being the
\* sources so far (the keys are distinct names, so their order changes nothing)
RECURSIVE SetTextSources(_, _, _)
SetTextSources(names, source_map, srcs) ==
    IF names = {} THEN srcs
    ELSE LET source_name == CHOOSE n \in names : TRUE
         IN SetTextSources(names \ {source_name}, source_map,
                           main_set_text_source(srcs, source_name, source_map[source_name]))

\* an operation a callback called, with its arguments
Call(name, a) == [name |-> name, args |-> a]

\* the calls of update_bracket_sources after refresh_bracket has returned; the
\* loop of set_text_source calls is recorded once, with the mapping it ran over
bracket_calls(matches) ==
    <<Call("get_bracket_text_sources", <<>>),
      Call("set_text_source", <<get_bracket_text_sources(matches)>>)>>

\* what the remote answers while the callbacks run: a transport error, a
\* well-formed payload, and one with a malformed record
EventParticipantResponses ==
    {[kind |-> "URLError"],
     [kind |-> "json", body |-> JObject([data |->
        <<[id |-> "1", attributes |-> [name |-> "Alpha"]],
          [id |-> "2", attributes |-> [name |-> "Beta"]]>>])],
     [kind |-> "json", body |-> JObject([data |-> <<[id |-> "1"]>>])]}
EventMatchResponses ==
    {[kind |-> "HTTPError"],
     [kind |-> "json", body |-> JObject([data |-> <<Match(0, <<P1>>), Match(1, <<P2, P1>>)>>])],
     [kind |-> "json", body |-> JObject([data |-> <<Match(0, <<P1>>), Empty>>])]}

\* the settings the user can choose: a team of the roster files (which a given
\* roster may lack) or none
EventSelections == {"", "A"}

\* the sources of the scene the callbacks run over
EventSources ==
    [i \in 1..5 |->
        [name |-> <<T1_NAME_SOURCE, T2_NAME_SOURCE, "T1H - Old", "G0_T1", "G1_T2">>[i],
         text |-> "", url |-> ""]]

\* script_update: the selections and the credentials are read from the settings
script_update ==
    /\ pc = "idle"
    /\ \E team1_select, team2_select \in EventSelections, api_key \in Keys,
          tournament_id \in TournamentIds :
          /\ selected_team1' = team1_select
          /\ selected_team2' = team2_select
          /\ API_KEY' = api_key
          /\ TOURNAMENT_ID' = tournament_id
          /\ calls' = <<Call("set_credentials", <<api_key, tournament_id>>)>>
    /\ op' = "script_update"
    /\ args' = <<>>
    /\ resp' = NoRequest
    /\ loaded' = {}
    /\ raised' = "none"
    /\ result' = ReturnedNone
    /\ UNCHANGED <<PARTICIPANTS, MATCHES, TEAM_ROSTER, sources, pc>>

\* a callback that returns without calling anything
CallNothing ==
    /\ calls' = <<>>
    /\ resp' = NoRequest
    /\ loaded' = {}
    /\ raised' = "none"
    /\ UNCHANGED <<bracketVars, sceneVars, pc>>

\* execute_transition(obs, selected_team1, selected_team2)
CallExecuteTransition ==
    /\ sources' = sources_after(sources, TEAM_ROSTER, selected_team1, selected_team2)
    /\ calls' = <<Call("execute_transition", <<selected_team1, selected_team2>>)>>
    /\ resp' = NoRequest
    /\ loaded' = {}
    /\ raised' = "none"
    /\ UNCHANGED <<bracketVars, TEAM_ROSTER, selected_team1, selected_team2, pc>>

\* update_bracket_sources up to the return of get_participants inside
\* refresh_bracket; an exception ends the callback
CallUpdateBracketSources ==
    /\ \E r \in Answers(EventParticipantResponses) :
       \E out \in {participants_after(PARTICIPANTS, TOURNAMENT_ID, API_KEY, r)} :
          /\ PARTICIPANTS' = out.map
          /\ raised' = out.raised
          /\ loaded' = IF out.loaded THEN {"participants"} ELSE {}
          /\ resp' = r
          /\ pc' = IF out.raised = "none" THEN "update_bracket_sources" ELSE "idle"
    /\ calls' = <<Call("refresh_bracket", <<>>)>>
    /\ UNCHANGED <<API_KEY, TOURNAMENT_ID, MATCHES, sceneVars>>

on_hotkey ==
    /\ pc = "idle"
    /\ \E pressed \in BOOLEAN :
          /\ args' = <<pressed>>
          /\ IF pressed THEN CallExecuteTransition ELSE CallNothing
    /\ op' = "on_hotkey"
    /\ result' = ReturnedNone

on_bracket_hotkey ==
    /\ pc = "idle"
    /\ \E pressed \in BOOLEAN :
          /\ args' = <<pressed>>
          /\ IF pressed THEN CallUpdateBracketSources ELSE CallNothing
    /\ op' = "on_bracket_hotkey"
    /\ result' = ReturnedNone

on_apply_button ==
    /\ pc = "idle"
    /\ CallExecuteTransition
    /\ op' = "on_apply_button"
    /\ args' = <<>>
    /\ result' = Returned(TRUE)

on_refresh_bracket_button ==
    /\ pc = "idle"
    /\ CallUpdateBracketSources
    /\ op' = "on_refresh_bracket_button"
    /\ args' = <<>>
    /\ result' = ReturnedNone

\* update_bracket_sources from the call of get_matches inside refresh_bracket to
\* its end, and the return of the callback that called it; an exception leaves
\* the sources as they are
update_bracket_sources ==
    /\ pc = "update_bracket_sources"
    /\ \E r \in Answers(EventMatchResponses) :
       \E out \in {matches_after(MATCHES, PARTICIPANTS, TOURNAMENT_ID, API_KEY, r)} :
          /\ MATCHES' = out.map
          /\ raised' = out.raised
          /\ loaded' = loaded \cup (IF out.loaded THEN {"matches"} ELSE {})
          /\ resp' = r
          /\ IF out.raised = "none"
             THEN LET source_map == get_bracket_text_sources(out.map) IN
                  /\ sources' = SetTextSources(DOMAIN source_map, source_map, sources)
                  /\ calls' = calls \o bracket_calls(out.map)
                  /\ result' = IF op = "on_refresh_bracket_button"
                               THEN Returned(TRUE) ELSE ReturnedNone
             ELSE /\ UNCHANGED <<sources, calls>>
                  /\ result' = ReturnedNone
    /\ pc' = "idle"
    /\ UNCHANGED <<API_KEY, TOURNAMENT_ID, PARTICIPANTS, TEAM_ROSTER>>
    /\ UNCHANGED <<selected_team1, selected_team2, op, args>>

\* script_load has run: the roster is loaded from a well-formed roster.json
InitMain ==
    /\ API_KEY = ""
    /\ TOURNAMENT_ID = ""
    /\ PARTICIPANTS = Empty
    /\ MATCHES = Empty
    /\ TEAM_ROSTER \in LoadedRosters
    /\ sources = EventSources
    /\ selected_team1 = ""
    /\ selected_team2 = ""
    /\ pc = "idle"
    /\ op = "script_load"
    /\ args = <<>>
    /\ resp = NoRequest
    /\ loaded = {}
    /\ raised = "none"
    /\ result = ReturnedNone
    /\ calls = <<Call("load_roster", <<>>)>>

\* the events of the host, one callback at a time
NextMain ==
    \/ script_update
    \/ on_hotkey
    \/ on_bracket_hotkey
    \/ on_apply_button
    \/ on_refresh_bracket_button
    \/ update_bracket_sources

SpecMain == InitMain /\ [][NextMain]_vars

----------------
(* Properties of the fetch operations *)

HasData(r) ==
    /\ r.kind = "json"
    /\ r.body.json = "object"
    /\ "data" \in DOMAIN r.body.members
DataOf(r) == r.body.members.data

Max(S) == CHOOSE x \in S : \A y \in S : y <= x

\* C1: a fetch that obtains no payload (transport/URL error, timeout, HTTP status
\* error, decode error) leaves MATCHES and PARTICIPANTS exactly as they were,
\* whatever was fetched before.
C1_FailedFetchKeepsMappings ==
    [][(op' \in {"get_matches", "get_participants"} /\ resp'.kind \in ErrorKinds)
          => (MATCHES' = MATCHES /\ PARTICIPANTS' = PARTICIPANTS)]_vars

\* a failed get_matches with both mappings loaded
C1_Witness ==
    /\ op = "get_matches"
    /\ resp.kind \in ErrorKinds
    /\ MATCHES # Empty
    /\ PARTICIPANTS # Empty

\* C2: after get_matches or get_participants, whatever the payload, the mapping is
\* the previous one or the complete one built from the whole payload: never one
\* emptied by a failure, never one built from a prefix of the records.
C2_WholesaleReplacement ==
    [][/\ op' = "get_matches" =>
            \/ MATCHES' = MATCHES
            \/ /\ HasData(resp')
               /\ MatchesFrom(DataOf(resp'), PARTICIPANTS, Empty).raised = "none"
               /\ MATCHES' = MatchesFrom(DataOf(resp'), PARTICIPANTS, Empty).map
       /\ op' = "get_participants" =>
            \/ PARTICIPANTS' = PARTICIPANTS
            \/ /\ HasData(resp')
               /\ ParticipantsFrom(DataOf(resp'), Empty).raised = "none"
               /\ PARTICIPANTS' = ParticipantsFrom(DataOf(resp'), Empty).map]_vars

\* C3: no fetch operation lets an exception reach its caller, whatever the remote
\* answers.
C3_NoExceptionEscapes ==
    op \in {"get_participants", "get_matches", "refresh_bracket"} => raised = "none"

\* the play orders the records of a payload carry
OrdersCarried(data) ==
    {data[i].attributes.suggested_play_order :
        i \in {j \in 1..Len(data) : "suggested_play_order" \in DOMAIN data[j].attributes}}

NameIn(list, id) ==
    LET at == {i \in 1..Len(list) : PyInt(list[i].id) = id}
    IN IF at = {} THEN None ELSE list[Max(at)].attributes.name

\* the entries of the record that sets slot n (the last record of that play order)
PointsOf(data, n) ==
    LET at == {i \in 1..Len(data) :
                  /\ "suggested_play_order" \in DOMAIN data[i].attributes
                  /\ data[i].attributes.suggested_play_order = n}
    IN Get(data[Max(at)].attributes, "points_by_participant", <<>>)

C9_TextSourcesOfMatches ==
    [][op' = "get_bracket_text_sources" =>
          /\ MATCHES' = MATCHES
          /\ PARTICIPANTS' = PARTICIPANTS
          /\ result'.returned = "value"
          /\ DOMAIN result'.value =
                {"G" \o ToString(n) \o "_T1" : n \in DOMAIN MATCHES}
                \cup {"G" \o ToString(n) \o "_T2" : n \in DOMAIN MATCHES}
          /\ Cardinality(DOMAIN result'.value) = 2 * Cardinality(DOMAIN MATCHES)
          /\ \A n \in DOMAIN MATCHES :
                /\ result'.value["G" \o ToString(n) \o "_T1"] = MATCHES[n][1]
                /\ result'.value["G" \o ToString(n) \o "_T2"] = MATCHES[n][2]]_vars

\* the mapping returned for two slots, one of them with an absent side
C9_Witness ==
    /\ op = "get_bracket_text_sources"
    /\ Cardinality(DOMAIN MATCHES) = 2
    /\ \E n \in DOMAIN MATCHES : MATCHES[n][1] # None /\ MATCHES[n][2] = None
    /\ Cardinality(DOMAIN result.value) = 4

FetchOperations == {"get_participants", "get_matches", "refresh_bracket"}

\* C11: with the API key empty or the tournament id empty, every step of
\* get_participants, get_matches and refresh_bracket sends no request, lets no
\* exception out, and leaves PARTICIPANTS and MATCHES as they were, data loaded
\* earlier under valid credentials included.
C11_UnsetCredentialsMakeFetchesNoOps ==
    [][(op' \in FetchOperations /\ (API_KEY = "" \/ TOURNAMENT_ID = ""))
          => /\ resp' = NoRequest
             /\ raised' = "none"
             /\ loaded' = {}
             /\ PARTICIPANTS' = PARTICIPANTS
             /\ MATCHES' = MATCHES]_vars

\* a whole refresh_bracket run with the tournament id set and the API key
\* emptied, over both mappings loaded earlier
C11_Witness ==
    /\ op = "refresh_bracket"
    /\ pc = "idle"
    /\ API_KEY = ""
    /\ TOURNAMENT_ID # ""
    /\ resp = NoRequest
    /\ PARTICIPANTS # Empty
    /\ MATCHES # Empty

----------------------------------------------------------------------------
(* Properties of the roster and the scene sources *)

\* C5: load_roster never leaves a partly built roster: whatever roster.json holds,
\* TEAM_ROSTER afterwards is the previous roster or the complete roster of the file,
\* and a missing or invalid file leaves the previous roster and raises nothing.
C5_LoadIsAllOrNothing ==
    [][op' = "load_roster" =>
          /\ \/ TEAM_ROSTER' = TEAM_ROSTER
             \/ /\ resp' \in ValidRosterFiles
                /\ TEAM_ROSTER' = RosterFrom(resp'.data.teams, Empty).roster
          /\ resp' \notin ValidRosterFiles =>
                (TEAM_ROSTER' = TEAM_ROSTER /\ raised' = "none")]_vars

Team1Prefixes == <<T1_HELM_PREFIX, T1_MC_PREFIX, T1_FLEX_PREFIX, T1_BILGE_PREFIX>>
Team2Prefixes == <<T2_HELM_PREFIX, T2_MC_PREFIX, T2_FLEX_PREFIX, T2_BILGE_PREFIX>>
Positions(team) == <<team.helm, team.mc, team.flex, team.bilge>>

\* the sources of a side: its name source and those its prefixes match
SideSources(srcs, name_source, prefixes) ==
    {i \in 1..Len(srcs) :
        \/ srcs[i].name = name_source
        \/ \E k \in 1..4 : StartsWith(srcs[i].name, prefixes[k])}

\* what a position's source is to show
ExpectedName(prefix, tup) ==
    IF tup = NoTuple \/ tup[1] = "" THEN prefix ELSE prefix \o " " \o tup[1]
ExpectedUrl(tup) ==
    IF tup = NoTuple \/ tup[2] = "" THEN ""
    ELSE "https://player.twitch.tv/?channel=" \o tup[2]
         \o "&enableExtensions=true&muted=false&parent=twitch.tv&player=popout&quality=480p30&volume=0.69"

\* the first source, in enumeration order, of each prefix that matches one
FirstMatches(srcs, prefixes) ==
    {Min(Matching(srcs, prefixes[k])) : k \in {j \in 1..4 : Matching(srcs, prefixes[j]) # {}}}
NameSources(srcs, name_source) ==
    {i \in 1..Len(srcs) : i = obs_get_source_by_name(srcs, name_source)}

\* after shows team on the sources before designates for the side
SideApplied(before, after, team, name_source, prefixes) ==
    /\ \A i \in NameSources(before, name_source) : after[i].text = team.name
    /\ \A k \in 1..4 :
          Matching(before, prefixes[k]) # {} =>
              LET first == Min(Matching(before, prefixes[k])) IN
              /\ after[first].name = ExpectedName(prefixes[k], Positions(team)[k])
              /\ after[first].url = ExpectedUrl(Positions(team)[k])

\* C4: execute_transition with team1 in the roster and team2 not in it shows team1
\* on the team-1 name source and on the source of every team-1 position that has
\* one, changes no team-2 source and returns normally; likewise with only team2
\* known; with neither known no source changes.
C4_UnknownSideIsSkipped ==
    [][op' = "execute_transition" =>
          LET known1 == args'[1] \in DOMAIN TEAM_ROSTER
              known2 == args'[2] \in DOMAIN TEAM_ROSTER
          IN /\ raised' = "none"
             /\ Len(sources') = Len(sources)
             /\ (known1 /\ ~known2) =>
                   /\ SideApplied(sources, sources', TEAM_ROSTER[args'[1]],
                                  T1_NAME_SOURCE, Team1Prefixes)
                   /\ \A i \in SideSources(sources, T2_NAME_SOURCE, Team2Prefixes) :
                         sources'[i] = sources[i]
             /\ (known2 /\ ~known1) =>
                   /\ SideApplied(sources, sources', TEAM_ROSTER[args'[2]],
                                  T2_NAME_SOURCE, Team2Prefixes)
                   /\ \A i \in SideSources(sources, T1_NAME_SOURCE, Team1Prefixes) :
                         sources'[i] = sources[i]
             /\ (~known1 /\ ~known2) => sources' = sources]_vars

\* team 1 known and shown, team 2 unknown, a team-2 source still as an earlier
\* transition set it
C4_Witness ==
    /\ op = "execute_transition"
    /\ args[1] \in DOMAIN TEAM_ROSTER
    /\ args[2] \notin DOMAIN TEAM_ROSTER
    /\ \E i \in 1..Len(sources) : sources[i].name = "T1H - X" /\ sources[i].url # ""
    /\ \E i \in 1..Len(sources) : sources[i].name = "T2H - X" /\ sources[i].url # ""

\* C6: execute_transition is idempotent: run again with the same roster and the
\* same two names, it leaves every source (name, text, url) as the first run left
\* it.
C6_TransitionIsIdempotent ==
    op = "execute_transition" =>
        sources_after(sources, TEAM_ROSTER, args[1], args[2]) = sources

\* a transition that renamed the first of two sources of one prefix, which the
\* prefix search finds again
C6_Witness ==
    /\ op = "execute_transition"
    /\ Cardinality(Matching(sources, T1_HELM_PREFIX)) = 2
    /\ find_source_by_prefix(sources, T1_HELM_PREFIX) = "T1H - X"
    /\ sources[2].name # "T1H - X"

\* C10: apply_team_to_sources handles each position by itself: a prefix that
\* matches no source changes nothing, and otherwise the first source, in
\* enumeration order, whose name starts with the prefix is renamed to
\* "{prefix} {playerName}" (to the prefix when there is no player name) and its url
\* set to the player URL of the channel (to "" when there is none); the team-name
\* source gets the team's name; no other source changes.
C10_PositionsAppliedOneByOne ==
    [][op' = "execute_transition" =>
          LET known1 == args'[1] \in DOMAIN TEAM_ROSTER
              known2 == args'[2] \in DOMAIN TEAM_ROSTER
              touched ==
                  (IF known1 THEN FirstMatches(sources, Team1Prefixes)
                                  \cup NameSources(sources, T1_NAME_SOURCE) ELSE {})
                  \cup (IF known2 THEN FirstMatches(sources, Team2Prefixes)
                                       \cup NameSources(sources, T2_NAME_SOURCE) ELSE {})
          IN /\ known1 => SideApplied(sources, sources', TEAM_ROSTER[args'[1]],
                                      T1_NAME_SOURCE, Team1Prefixes)
             /\ known2 => SideApplied(sources, sources', TEAM_ROSTER[args'[2]],
                                      T2_NAME_SOURCE, Team2Prefixes)
             /\ \A i \in (1..Len(sources)) \ touched : sources'[i] = sources[i]]_vars

\* a team shown with two sources of the helm prefix (the first renamed, the second
\* left alone) and no source of the mc prefix
C10_Witness ==
    /\ op = "execute_transition"
    /\ args[1] \in DOMAIN TEAM_ROSTER
    /\ Len(sources) = 2
    /\ sources[1].name = "T1H - X"
    /\ sources[1].url # ""
    /\ sources[2] = [name |-> "T1H - Old", text |-> "", url |-> ""]
    /\ Matching(sources, T1_MC_PREFIX) = {}

----------------------------------------------------------------------------
(* Properties of the callbacks *)

\* an occurrence of one of the five events: a change of the settings, a press of
\* one of the two hotkeys, a click on one of the two buttons
EventHandled ==
    \/ op \in {"script_update", "on_apply_button", "on_refresh_bracket_button"}
    \/ op \in {"on_hotkey", "on_bracket_hotkey"} /\ args = <<TRUE>>

RanExecuteTransition ==
    calls = <<Call("execute_transition", <<selected_team1, selected_team2>>)>>

RanRefreshAndApply ==
    calls = <<Call("refresh_bracket", <<>>)>> \o bracket_calls(MATCHES)

\* C12: every occurrence of one of the five events runs exactly one of the two
\* operations to completion before the next event is handled: once its callback
\* has ended, no exception has escaped and what it has called is either
\* execute_transition with the current selections, or refresh_bracket followed
\* by the update of the bracket sources from MATCHES; and while it has not ended,
\* it is the refresh that is running.
C12_EachEventRunsOneOperation ==
    /\ (pc = "idle" /\ EventHandled) =>
          /\ raised = "none"
          /\ RanExecuteTransition \/ RanRefreshAndApply
    /\ pc # "idle" =>
          /\ EventHandled
          /\ calls = <<Call("refresh_bracket", <<>>)>>

====
